---- MODULE Spec2Model ----
(***************************************************************************)
(* Model of src/transaction.rs: the Transaction handle of libsql-client.   *)
(*                                                                         *)
(* A handle is the pair (id, client).  Every function of the handle makes  *)
(* one call to the connection (the Client): the function issues the call,  *)
(* its caller is suspended (async) or blocked (sync) until the connection  *)
(* answers, and the function then returns.  Other callers may act between  *)
(* a call and its answer, so each function is modelled by two operators:   *)
(* the part up to the call (named as the function) and the part after the  *)
(* answer (_ret).                                                          *)
(*                                                                         *)
(* ops is what the callers did: the invocations of the handle's functions, *)
(* with their arguments and what each returned.  log is what the           *)
(* connection saw: the calls it received, in order, and what it answered.  *)
(*                                                                         *)
(* contract says what the callers of a run do with the connection:         *)
(*   Spec         one family of functions per run, "suspending" (async)    *)
(*                or "blocking" (sync);                                    *)
(*   SpecTwin     "lockstep": both families, on the same scenario;         *)
(*   SpecCancel   "suspending", and suspended functions may be cancelled;  *)
(*   SpecMixed    "mixed": the variant is chosen per call;                 *)
(*   SpecForward  "forwarding": new and execute on varied statements and   *)
(*                results;                                                 *)
(*   SpecDrop     one family per run, handles may be dropped and the       *)
(*                connection destroyed, after which contract is "gone".    *)
(***************************************************************************)
EXTENDS Integers, Sequences, FiniteSets, TLC

VARIABLES contract, handles, ops, log, twin

vars == <<contract, handles, ops, log, twin>>

(* ------------------------------ bounds -------------------------------- *)

\* Longest sequence of connection calls explored.
MaxCalls == 4

\* Most invocations awaiting the connection's answer at the same time.
MaxInFlight == 2

(* ------------------------------ inputs -------------------------------- *)

\* Transaction identifiers a caller passes to new / new_sync (id: u64).
Ids == {1, 2}

\* Statement-like values a caller passes to execute / execute_sync: a
\* Statement with arguments, as in the documented example.
StmtInputs ==
    { [kind |-> "stmt", sql |-> "INSERT_users", args |-> <<"John">>] }

\* Result sets and errors the connection may answer with.
ResultSets == {"rs1"}
Errors == {"e1"}

(* --------------------------- Result values ---------------------------- *)

Ok(v) == [tag |-> "Ok", v |-> v]
Err(e) == [tag |-> "Err", v |-> e]

\* The call has not been answered / the function has not returned yet.
Pending == [tag |-> "Pending", v |-> "none"]

\* execute_in_transaction returns Result<ResultSet>,
\* commit_transaction and rollback_transaction return Result<()>.
AnswersTo(fn) ==
    IF fn \in {"execute_in_transaction", "execute_in_transaction_sync"}
    THEN {Ok(r) : r \in ResultSets} \cup {Err(e) : e \in Errors}
    ELSE {Ok("unit")} \cup {Err(e) : e \in Errors}

(* ----------------------------- Statement ------------------------------ *)

StatementFrom(s) == [sql |-> s, args |-> <<>>]

Into(x) == IF x.kind = "str" THEN StatementFrom(x.sql)
           ELSE [sql |-> x.sql, args |-> x.args]

NoStatement == [sql |-> "", args |-> <<>>]
NoInput == [kind |-> "none", sql |-> "", args |-> <<>>]

(* ------------------------ the machine's records ----------------------- *)

EmptyMachine == [handles |-> <<>>, ops |-> <<>>, log |-> <<>>]

\* The invocations that have not returned.
Running(m) == {k \in 1..Len(m.ops) : m.ops[k].ret = Pending}

\* The calls the connection has not answered.
InFlight(m) == {i \in 1..Len(m.log) : m.log[i].ans = Pending}

\* Identifier id belongs to a transaction that is being begun, is open or
\* is being ended: a new or new_sync on id is running, or a handle on id
\* exists or was moved into a commit or rollback that is running.
IdInUse(m, id) ==
    \/ \E k \in Running(m) : m.ops[k].api = "new" /\ m.ops[k].id = id
    \/ \E h \in 1..Len(m.handles) :
          /\ m.handles[h].id = id
          /\ \/ m.handles[h].st = "open"
             \/ \E k \in Running(m) : m.ops[k].h = h

\* A caller invokes function api of handle h (0: no handle yet, id is the
\* identifier for the new one).  alone records that nothing else used the
\* handle, or the identifier, at that moment.
Invoke(m, api, sync, h, id, stmt) ==
    [m EXCEPT !.ops = Append(@,
        [api |-> api, sync |-> sync, h |-> h, id |-> id, stmt |-> stmt,
         alone |-> IF h = 0 THEN ~IdInUse(m, id)
                   ELSE {j \in Running(m) : m.ops[j].h = h} = {},
         ret |-> Pending])]

\* Invocation k calls function fn of the connection.
Call(m, k, fn, id, stmt) ==
    [m EXCEPT !.log = Append(@,
        [fn |-> fn, id |-> id, stmt |-> stmt, op |-> k, ans |-> Pending])]

\* The connection answered call i with ans; its invocation returns ret.
Return(m, i, ans, ret) ==
    [m EXCEPT !.log[i].ans = ans, !.ops[m.log[i].op].ret = ret]

(* ------------------------------ handle -------------------------------- *)

\* Self { id, client }: the handle value made by invocation k.
Self(id, k) == [id |-> id, st |-> "open", born |-> k]

\* The invocations that borrow handle h (&self) and have not returned.
Borrows(m, h) == {k \in Running(m) : m.ops[k].h = h}

\* &self: the handle value exists (several executes may borrow it).
CanBorrow(m, h) == h \in 1..Len(m.handles) /\ m.handles[h].st = "open"

\* A faulty variant: the handle is taken while it is borrowed.
CanMove_while_borrowed(m, h) == CanBorrow(m, h)

\* self by value: the handle value exists and nothing borrows it.
CanMove(m, h) == CanBorrow(m, h) /\ Borrows(m, h) = {}

\* The handle value is moved into the function and ends with it.
Moved(m, h) == [m EXCEPT !.handles[h].st = "consumed"]

(* --------------------------- async functions -------------------------- *)

\* A faulty variant: the handle is made before BEGIN is answered.
new_eager(m, k, id) ==
    [Call(m, k, "execute_in_transaction", id, StatementFrom("BEGIN")) EXCEPT
        !.handles = Append(@, Self(id, k))]

\* client.execute_in_transaction(id, Statement::from("BEGIN")).await
new(m, k, id) ==
    Call(m, k, "execute_in_transaction", id, StatementFrom("BEGIN"))

\* A faulty variant: a BEGIN that failed is issued once more.
new_ret_retry(m, i, ans) ==
    IF ans.tag = "Err"
    THEN IF Cardinality({j \in 1..Len(m.log) : m.log[j].op = m.log[i].op}) = 1
         THEN Call([m EXCEPT !.log[i].ans = ans], m.log[i].op,
                   "execute_in_transaction", m.log[i].id, StatementFrom("BEGIN"))
         ELSE Return(m, i, ans, ans)
    ELSE [Return(m, i, ans, Ok("Transaction")) EXCEPT
            !.handles = Append(@, Self(m.ops[m.log[i].op].id, m.log[i].op))]

\* ...? ; Ok(Self { id, client })
new_ret(m, i, ans) ==
    IF ans.tag = "Err"
    THEN Return(m, i, ans, ans)
    ELSE [Return(m, i, ans, Ok("Transaction")) EXCEPT
            !.handles = Append(@, Self(m.ops[m.log[i].op].id, m.log[i].op))]

\* A faulty variant: execute is routed to the transaction begun last.
execute_latest(m, k, h, stmt) ==
    Call(m, k, "execute_in_transaction", m.handles[Len(m.handles)].id, Into(stmt))

\* self.client.execute_in_transaction(self.id, stmt.into()).await
execute(m, k, h, stmt) ==
    Call(m, k, "execute_in_transaction", m.handles[h].id, Into(stmt))

\* A faulty variant: a failed execute rolls the transaction back on its own.
execute_ret_autorollback(m, i, ans) ==
    IF ans.tag = "Err"
    THEN Call(Return(m, i, ans, ans), m.log[i].op,
              "rollback_transaction", m.log[i].id, NoStatement)
    ELSE Return(m, i, ans, ans)

execute_ret(m, i, ans) == Return(m, i, ans, ans)

\* A faulty variant: commit borrows the handle (&self) instead of consuming it.
commit_borrowing(m, k, h) ==
    Call(m, k, "commit_transaction", m.handles[h].id, NoStatement)

\* self.client.commit_transaction(self.id).await
commit(m, k, h) ==
    Call(Moved(m, h), k, "commit_transaction", m.handles[h].id, NoStatement)

commit_ret(m, i, ans) == Return(m, i, ans, ans)

\* A faulty variant: rollback borrows the handle (&self) instead of consuming it.
rollback_borrowing(m, k, h) ==
    Call(m, k, "rollback_transaction", m.handles[h].id, NoStatement)

\* self.client.rollback_transaction(self.id).await
rollback(m, k, h) ==
    Call(Moved(m, h), k, "rollback_transaction", m.handles[h].id, NoStatement)

\* A faulty variant: the outcome of the rollback call is dropped (let _ = ...; Ok(())).
rollback_ret_lenient(m, i, ans) == Return(m, i, ans, Ok("unit"))

rollback_ret(m, i, ans) == Return(m, i, ans, ans)

(* --------------------------- sync functions --------------------------- *)

\* client.execute_in_transaction_sync(id, Statement::from("BEGIN"))
new_sync(m, k, id) ==
    Call(m, k, "execute_in_transaction_sync", id, StatementFrom("BEGIN"))

\* A faulty variant: the handle is made whatever the connection answered.
new_sync_ret_unchecked(m, i, ans) ==
    [Return(m, i, ans, Ok("Transaction")) EXCEPT
        !.handles = Append(@, Self(m.ops[m.log[i].op].id, m.log[i].op))]

\* .map(|_| Self { id, client })
new_sync_ret(m, i, ans) ==
    IF ans.tag = "Ok"
    THEN [Return(m, i, ans, Ok("Transaction")) EXCEPT
            !.handles = Append(@, Self(m.ops[m.log[i].op].id, m.log[i].op))]
    ELSE Return(m, i, ans, ans)

\* A faulty variant: the statement is forwarded without its arguments.
execute_sync_unbound(m, k, h, stmt) ==
    Call(m, k, "execute_in_transaction_sync", m.handles[h].id, StatementFrom(stmt.sql))

\* self.client.execute_in_transaction_sync(self.id, stmt.into())
execute_sync(m, k, h, stmt) ==
    Call(m, k, "execute_in_transaction_sync", m.handles[h].id, Into(stmt))

\* A faulty variant: a failed execute ends the handle.
execute_sync_ret_poison(m, i, ans) ==
    IF ans.tag = "Err"
    THEN Moved(Return(m, i, ans, ans), m.ops[m.log[i].op].h)
    ELSE Return(m, i, ans, ans)

execute_sync_ret(m, i, ans) == Return(m, i, ans, ans)

\* A faulty variant: commit_sync borrows the handle (&self).
commit_sync_borrowing(m, k, h) ==
    Call(m, k, "commit_transaction_sync", m.handles[h].id, NoStatement)

\* self.client.commit_transaction_sync(self.id)
commit_sync(m, k, h) ==
    Call(Moved(m, h), k, "commit_transaction_sync", m.handles[h].id, NoStatement)

\* A faulty variant: a failed COMMIT is issued again.
commit_sync_ret_retry(m, i, ans) ==
    IF ans.tag = "Err" /\ Cardinality({j \in 1..Len(m.log) : m.log[j].op = m.log[i].op}) = 1
    THEN Call([m EXCEPT !.log[i].ans = ans], m.log[i].op,
              "commit_transaction_sync", m.log[i].id, NoStatement)
    ELSE Return(m, i, ans, ans)

commit_sync_ret(m, i, ans) == Return(m, i, ans, ans)

\* A faulty variant: rollback_sync calls the commit of the connection.
rollback_sync_commits(m, k, h) ==
    Call(Moved(m, h), k, "commit_transaction_sync", m.handles[h].id, NoStatement)

\* self.client.rollback_transaction_sync(self.id)
rollback_sync(m, k, h) ==
    Call(Moved(m, h), k, "rollback_transaction_sync", m.handles[h].id, NoStatement)

rollback_sync_ret(m, i, ans) == Return(m, i, ans, ans)

(* ------------------------------ dispatch ------------------------------ *)

\* The connection answers call i: the function that made the call goes on.
Resume(m, i, ans) ==
    LET o == m.ops[m.log[i].op] IN
    CASE o.api = "new"      /\ ~o.sync -> new_ret(m, i, ans)
      [] o.api = "new"      /\ o.sync  -> new_sync_ret(m, i, ans)
      [] o.api = "execute"  /\ ~o.sync -> execute_ret(m, i, ans)
      [] o.api = "execute"  /\ o.sync  -> execute_sync_ret(m, i, ans)
      [] o.api = "commit"   /\ ~o.sync -> commit_ret(m, i, ans)
      [] o.api = "commit"   /\ o.sync  -> commit_sync_ret(m, i, ans)
      [] o.api = "rollback" /\ ~o.sync -> rollback_ret(m, i, ans)
      [] o.api = "rollback" /\ o.sync  -> rollback_sync_ret(m, i, ans)

\* Room for one more invocation within the bounds.
CanCall(m) == Len(m.log) < MaxCalls /\ Cardinality(Running(m)) < MaxInFlight

(* ------------------------------ the state ----------------------------- *)

\* The machine of the main specification.
M == [handles |-> handles, ops |-> ops, log |-> log]

Set(m) == handles' = m.handles /\ ops' = m.ops /\ log' = m.log

\* A run uses the suspending (async) or the blocking (sync) functions.
Init ==
    /\ contract \in {"suspending", "blocking"}
    /\ handles = <<>>
    /\ ops = <<>>
    /\ log = <<>>
    /\ twin = EmptyMachine

New ==
    \E id \in Ids :
        /\ contract = "suspending"
        /\ CanCall(M)
        /\ Set(new(Invoke(M, "new", FALSE, 0, id, NoInput), Len(ops) + 1, id))
        /\ UNCHANGED <<contract, twin>>

NewSync ==
    \E id \in Ids :
        /\ contract = "blocking"
        /\ CanCall(M)
        /\ Set(new_sync(Invoke(M, "new", TRUE, 0, id, NoInput), Len(ops) + 1, id))
        /\ UNCHANGED <<contract, twin>>

Execute ==
    \E h \in 1..Len(handles), stmt \in StmtInputs :
        /\ contract = "suspending"
        /\ CanCall(M)
        /\ CanBorrow(M, h)
        /\ Set(execute(Invoke(M, "execute", FALSE, h, 0, stmt), Len(ops) + 1, h, stmt))
        /\ UNCHANGED <<contract, twin>>

ExecuteSync ==
    \E h \in 1..Len(handles), stmt \in StmtInputs :
        /\ contract = "blocking"
        /\ CanCall(M)
        /\ CanBorrow(M, h)
        /\ Set(execute_sync(Invoke(M, "execute", TRUE, h, 0, stmt), Len(ops) + 1, h, stmt))
        /\ UNCHANGED <<contract, twin>>

Commit ==
    \E h \in 1..Len(handles) :
        /\ contract = "suspending"
        /\ CanCall(M)
        /\ CanMove(M, h)
        /\ Set(commit(Invoke(M, "commit", FALSE, h, 0, NoInput), Len(ops) + 1, h))
        /\ UNCHANGED <<contract, twin>>

CommitSync ==
    \E h \in 1..Len(handles) :
        /\ contract = "blocking"
        /\ CanCall(M)
        /\ CanMove(M, h)
        /\ Set(commit_sync(Invoke(M, "commit", TRUE, h, 0, NoInput), Len(ops) + 1, h))
        /\ UNCHANGED <<contract, twin>>

Rollback ==
    \E h \in 1..Len(handles) :
        /\ contract = "suspending"
        /\ CanCall(M)
        /\ CanMove(M, h)
        /\ Set(rollback(Invoke(M, "rollback", FALSE, h, 0, NoInput), Len(ops) + 1, h))
        /\ UNCHANGED <<contract, twin>>

RollbackSync ==
    \E h \in 1..Len(handles) :
        /\ contract = "blocking"
        /\ CanCall(M)
        /\ CanMove(M, h)
        /\ Set(rollback_sync(Invoke(M, "rollback", TRUE, h, 0, NoInput), Len(ops) + 1, h))
        /\ UNCHANGED <<contract, twin>>

\* The connection answers a call and the suspended or blocked function returns.
Answer ==
    \E i \in InFlight(M) :
        \E ans \in AnswersTo(log[i].fn) :
            /\ contract \in {"suspending", "blocking"}
            /\ Set(Resume(M, i, ans))
            /\ UNCHANGED <<contract, twin>>

Next ==
    \/ New
    \/ NewSync
    \/ Execute
    \/ ExecuteSync
    \/ Commit
    \/ CommitSync
    \/ Rollback
    \/ RollbackSync
    \/ Answer

Spec == Init /\ [][Next]_vars

(* ----------------- the two contracts run in lockstep ------------------ *)

\* One scenario is run twice: the callers invoke the suspending functions
\* on the machine of the main variables and the blocking functions on twin,
\* with the same arguments, and the connection gives both the same answers.
InitTwin ==
    /\ contract = "lockstep"
    /\ handles = <<>>
    /\ ops = <<>>
    /\ log = <<>>
    /\ twin = EmptyMachine

TwinNew ==
    \E id \in Ids :
        /\ contract = "lockstep"
        /\ CanCall(M)
        /\ Set(new(Invoke(M, "new", FALSE, 0, id, NoInput), Len(ops) + 1, id))
        /\ twin' = new_sync(Invoke(twin, "new", TRUE, 0, id, NoInput),
                            Len(twin.ops) + 1, id)
        /\ UNCHANGED contract

TwinExecute ==
    \E h \in 1..Len(handles), stmt \in StmtInputs :
        /\ contract = "lockstep"
        /\ CanCall(M)
        /\ CanBorrow(M, h) /\ CanBorrow(twin, h)
        /\ Set(execute(Invoke(M, "execute", FALSE, h, 0, stmt), Len(ops) + 1, h, stmt))
        /\ twin' = execute_sync(Invoke(twin, "execute", TRUE, h, 0, stmt),
                                Len(twin.ops) + 1, h, stmt)
        /\ UNCHANGED contract

TwinCommit ==
    \E h \in 1..Len(handles) :
        /\ contract = "lockstep"
        /\ CanCall(M)
        /\ CanMove(M, h) /\ CanMove(twin, h)
        /\ Set(commit(Invoke(M, "commit", FALSE, h, 0, NoInput), Len(ops) + 1, h))
        /\ twin' = commit_sync(Invoke(twin, "commit", TRUE, h, 0, NoInput),
                               Len(twin.ops) + 1, h)
        /\ UNCHANGED contract

TwinRollback ==
    \E h \in 1..Len(handles) :
        /\ contract = "lockstep"
        /\ CanCall(M)
        /\ CanMove(M, h) /\ CanMove(twin, h)
        /\ Set(rollback(Invoke(M, "rollback", FALSE, h, 0, NoInput), Len(ops) + 1, h))
        /\ twin' = rollback_sync(Invoke(twin, "rollback", TRUE, h, 0, NoInput),
                                 Len(twin.ops) + 1, h)
        /\ UNCHANGED contract

TwinAnswer ==
    \E i \in InFlight(M) \cap InFlight(twin) :
        \E ans \in AnswersTo(log[i].fn) :
            /\ contract = "lockstep"
            /\ Set(Resume(M, i, ans))
            /\ twin' = Resume(twin, i, ans)
            /\ UNCHANGED contract

NextTwin ==
    \/ TwinNew
    \/ TwinExecute
    \/ TwinCommit
    \/ TwinRollback
    \/ TwinAnswer

SpecTwin == InitTwin /\ [][NextTwin]_vars

(* ------------- the suspending contract with cancellation ------------- *)

\* The future of a suspended function was dropped by its caller: the
\* function never resumes and returns no value, neither Ok nor Err.
Dropped == [tag |-> "Dropped", v |-> "none"]

\* The caller drops the future of the invocation that awaits call i.  The
\* code after .await never runs; a handle that was borrowed is released, a
\* handle that was moved into the future goes away with it.
cancel(m, i) == Return(m, i, Dropped, Dropped)

Cancel ==
    \E i \in InFlight(M) :
        /\ contract = "suspending"
        /\ ~ops[log[i].op].sync
        /\ Set(cancel(M, i))
        /\ UNCHANGED <<contract, twin>>

InitCancel ==
    /\ contract = "suspending"
    /\ handles = <<>>
    /\ ops = <<>>
    /\ log = <<>>
    /\ twin = EmptyMachine

NextCancel ==
    \/ New
    \/ Execute
    \/ Commit
    \/ Rollback
    \/ Answer
    \/ Cancel

SpecCancel == InitCancel /\ [][NextCancel]_vars

(* ------------- callers that choose the variant per call -------------- *)

\* Longest sequence of connection calls explored when variants are mixed.
MaxMixedCalls == 3

\* A caller invokes function api in its blocking (sync) or suspending form:
\* the function runs up to its call to the connection.
Start(m, api, sync, h, id, stmt) ==
    LET k == Len(m.ops) + 1
        mi == Invoke(m, api, sync, h, id, stmt)
    IN  CASE api = "new"      /\ ~sync -> new(mi, k, id)
          [] api = "new"      /\ sync  -> new_sync(mi, k, id)
          [] api = "execute"  /\ ~sync -> execute(mi, k, h, stmt)
          [] api = "execute"  /\ sync  -> execute_sync(mi, k, h, stmt)
          [] api = "commit"   /\ ~sync -> commit(mi, k, h)
          [] api = "commit"   /\ sync  -> commit_sync(mi, k, h)
          [] api = "rollback" /\ ~sync -> rollback(mi, k, h)
          [] api = "rollback" /\ sync  -> rollback_sync(mi, k, h)

\* Room for one more invocation when at most n calls are explored.
Room(m, n) == Len(m.log) < n /\ Cardinality(Running(m)) < MaxInFlight

InitMixed ==
    /\ contract = "mixed"
    /\ handles = <<>>
    /\ ops = <<>>
    /\ log = <<>>
    /\ twin = EmptyMachine

MixedNew ==
    \E id \in Ids, sync \in BOOLEAN :
        /\ contract = "mixed"
        /\ Room(M, MaxMixedCalls)
        /\ Set(Start(M, "new", sync, 0, id, NoInput))
        /\ UNCHANGED <<contract, twin>>

MixedExecute ==
    \E h \in 1..Len(handles), stmt \in StmtInputs, sync \in BOOLEAN :
        /\ contract = "mixed"
        /\ Room(M, MaxMixedCalls)
        /\ CanBorrow(M, h)
        /\ Set(Start(M, "execute", sync, h, 0, stmt))
        /\ UNCHANGED <<contract, twin>>

MixedCommit ==
    \E h \in 1..Len(handles), sync \in BOOLEAN :
        /\ contract = "mixed"
        /\ Room(M, MaxMixedCalls)
        /\ CanMove(M, h)
        /\ Set(Start(M, "commit", sync, h, 0, NoInput))
        /\ UNCHANGED <<contract, twin>>

MixedRollback ==
    \E h \in 1..Len(handles), sync \in BOOLEAN :
        /\ contract = "mixed"
        /\ Room(M, MaxMixedCalls)
        /\ CanMove(M, h)
        /\ Set(Start(M, "rollback", sync, h, 0, NoInput))
        /\ UNCHANGED <<contract, twin>>

MixedAnswer ==
    \E i \in InFlight(M) :
        \E ans \in AnswersTo(log[i].fn) :
            /\ contract = "mixed"
            /\ Set(Resume(M, i, ans))
            /\ UNCHANGED <<contract, twin>>

NextMixed ==
    \/ MixedNew
    \/ MixedExecute
    \/ MixedCommit
    \/ MixedRollback
    \/ MixedAnswer

SpecMixed == InitMixed /\ [][NextMixed]_vars

(* ---------------- statements and results in variety ------------------ *)

\* Longest sequence of connection calls explored with varied payloads.
MaxForwardCalls == 3

\* Statement-like values (impl Into<Statement>): a string, and Statements
\* with arguments that differ in their arguments only.
Payloads ==
    { [kind |-> "str",  sql |-> "SELECT_1",     args |-> <<>>],
      [kind |-> "stmt", sql |-> "INSERT_users", args |-> <<"John">>],
      [kind |-> "stmt", sql |-> "INSERT_users", args |-> <<"Jane">>] }

\* Result sets the connection may answer an execute with.
Results == {"rs1", "rs2"}

InitForward ==
    /\ contract = "forwarding"
    /\ handles = <<>>
    /\ ops = <<>>
    /\ log = <<>>
    /\ twin = EmptyMachine

ForwardNew ==
    \E id \in Ids, sync \in BOOLEAN :
        /\ contract = "forwarding"
        /\ Room(M, MaxForwardCalls)
        /\ Set(Start(M, "new", sync, 0, id, NoInput))
        /\ UNCHANGED <<contract, twin>>

ForwardExecute ==
    \E h \in 1..Len(handles), stmt \in Payloads, sync \in BOOLEAN :
        /\ contract = "forwarding"
        /\ Room(M, MaxForwardCalls)
        /\ CanBorrow(M, h)
        /\ Set(Start(M, "execute", sync, h, 0, stmt))
        /\ UNCHANGED <<contract, twin>>

\* What the connection may answer call e with: any of Results, or an
\* error, for a statement of a caller; as before for BEGIN.
ForwardAnswers(e) ==
    IF e.stmt = StatementFrom("BEGIN")
    THEN AnswersTo(e.fn)
    ELSE {Ok(r) : r \in Results} \cup {Err(x) : x \in Errors}

ForwardAnswer ==
    \E i \in InFlight(M) :
        \E ans \in ForwardAnswers(log[i]) :
            /\ contract = "forwarding"
            /\ Set(Resume(M, i, ans))
            /\ UNCHANGED <<contract, twin>>

NextForward ==
    \/ ForwardNew
    \/ ForwardExecute
    \/ ForwardAnswer

SpecForward == InitForward /\ [][NextForward]_vars

(* ----------------- values that go out of scope ------------------------ *)

\* A faulty variant: a handle that goes away rolls its transaction back.
drop_rollback(m, h) ==
    Call([m EXCEPT !.handles[h].st = "dropped"], m.handles[h].born,
         "rollback_transaction", m.handles[h].id, NoStatement)

\* The handle value goes out of scope.  Transaction has no Drop of its own
\* and its fields (a u64 and a reference) have none: nothing is called.
drop(m, h) == [m EXCEPT !.handles[h].st = "dropped"]

\* A handle can be dropped where it can be moved: nothing borrows it.
Drop ==
    \E h \in 1..Len(handles) :
        /\ contract \in {"suspending", "blocking"}
        /\ CanMove(M, h)
        /\ Set(drop(M, h))
        /\ UNCHANGED <<contract, twin>>

\* A faulty variant: the handle keeps a pointer the compiler does not track.
CanDropClient_untracked(m) == Running(m) = {}

\* client: &'a Client.  The Client can be destroyed only when no reference
\* to it of lifetime 'a is left: no handle value exists, and no function
\* that holds the client, or a handle moved into it, is running.
CanDropClient(m) ==
    /\ Running(m) = {}
    /\ \A h \in 1..Len(m.handles) : m.handles[h].st # "open"

\* The connection is destroyed; from then on no function can be called
\* with it (contract = "gone").
DropClient ==
    /\ contract \in {"suspending", "blocking"}
    /\ CanDropClient(M)
    /\ contract' = "gone"
    /\ UNCHANGED <<handles, ops, log, twin>>

\* Longest sequence of connection calls explored with values going away.
MaxScopeCalls == 3

\* The functions of the run's family, within MaxScopeCalls.
ScopeNew ==
    \E id \in Ids :
        /\ contract \in {"suspending", "blocking"}
        /\ Room(M, MaxScopeCalls)
        /\ Set(Start(M, "new", contract = "blocking", 0, id, NoInput))
        /\ UNCHANGED <<contract, twin>>

ScopeExecute ==
    \E h \in 1..Len(handles), stmt \in StmtInputs :
        /\ contract \in {"suspending", "blocking"}
        /\ Room(M, MaxScopeCalls)
        /\ CanBorrow(M, h)
        /\ Set(Start(M, "execute", contract = "blocking", h, 0, stmt))
        /\ UNCHANGED <<contract, twin>>

ScopeCommit ==
    \E h \in 1..Len(handles) :
        /\ contract \in {"suspending", "blocking"}
        /\ Room(M, MaxScopeCalls)
        /\ CanMove(M, h)
        /\ Set(Start(M, "commit", contract = "blocking", h, 0, NoInput))
        /\ UNCHANGED <<contract, twin>>

ScopeRollback ==
    \E h \in 1..Len(handles) :
        /\ contract \in {"suspending", "blocking"}
        /\ Room(M, MaxScopeCalls)
        /\ CanMove(M, h)
        /\ Set(Start(M, "rollback", contract = "blocking", h, 0, NoInput))
        /\ UNCHANGED <<contract, twin>>

NextDrop ==
    \/ ScopeNew
    \/ ScopeExecute
    \/ ScopeCommit
    \/ ScopeRollback
    \/ Answer
    \/ Drop
    \/ DropClient

SpecDrop == Init /\ [][NextDrop]_vars

(* ===================================================================== *)
(*                         Properties of the handle                      *)
(* ===================================================================== *)

\* Classification of the calls the connection receives.
IsBegin(e) ==
    /\ e.fn \in {"execute_in_transaction", "execute_in_transaction_sync"}
    /\ e.stmt = StatementFrom("BEGIN")

IsExecute(e) ==
    /\ e.fn \in {"execute_in_transaction", "execute_in_transaction_sync"}
    /\ e.stmt # StatementFrom("BEGIN")

IsCommit(e) == e.fn \in {"commit_transaction", "commit_transaction_sync"}

IsRollback(e) == e.fn \in {"rollback_transaction", "rollback_transaction_sync"}

IsTerminal(e) == IsCommit(e) \/ IsRollback(e)

Calls == 1..Len(log)
Handles == 1..Len(handles)
Invocations == 1..Len(ops)

\* The calls made by invocation k, and by the invocations on handle h.
CallsBy(k) == {i \in Calls : log[i].op = k}
CallsOf(h) == {i \in Calls : ops[log[i].op].h = h}
TerminalCallsOf(h) == {i \in CallsOf(h) : IsTerminal(log[i])}
TerminalCallsFor(id) == {i \in Calls : IsTerminal(log[i]) /\ log[i].id = id}
HandlesFor(id) == {h \in Handles : handles[h].id = id}

\* I1 is kept by the callers: no identifier was passed to new or new_sync
\* while a transaction on it was being begun, open or being ended.
KeepsI1 == \A k \in Invocations : ops[k].api = "new" => ops[k].alone

(* ------------------------------- C1 ---------------------------------- *)

\* C1 as stated, for callers that keep I1: the connection receives at most
\* one terminal call (commit_transaction or rollback_transaction) for an
\* identifier, and a handle consumed by commit or rollback has issued
\* exactly one.
C1_OneTerminalPerIdentifier ==
    KeepsI1 =>
        /\ \A id \in Ids : Cardinality(TerminalCallsFor(id)) <= 1
        /\ \A h \in Handles :
              handles[h].st = "consumed" => Cardinality(TerminalCallsOf(h)) = 1

\* C1 as amended: every handle issues at most one terminal call (so commit
\* and rollback exclude each other), a handle consumed by commit or rollback
\* has issued exactly one, and the connection receives for an identifier at
\* most as many terminal calls as handles were constructed for it.
C1_OneTerminalPerHandle ==
    /\ \A h \in Handles :
          /\ Cardinality(TerminalCallsOf(h)) <= 1
          /\ Cardinality({k \in Invocations :
                            ops[k].h = h /\ ops[k].api \in {"commit", "rollback"}}) <= 1
          /\ handles[h].st = "consumed" <=> Cardinality(TerminalCallsOf(h)) = 1
    /\ \A id \in Ids :
          Cardinality(TerminalCallsFor(id)) <= Cardinality(HandlesFor(id))

\* Two handles constructed for one identifier, the second after the first
\* was gone, one consumed by commit and the other by rollback.
C1_Witness ==
    \E g, h \in Handles :
        /\ KeepsI1
        /\ g # h
        /\ handles[g].id = handles[h].id
        /\ \E i \in TerminalCallsOf(g) : IsCommit(log[i])
        /\ \E i \in TerminalCallsOf(h) : IsRollback(log[i])

(* ------------------------------- C2 ---------------------------------- *)

\* C2 as stated, for callers that keep I1: for every constructed handle
\* exactly one BEGIN tagged with its identifier is issued to the connection,
\* answered successfully, and it precedes every execute, commit and
\* rollback call for that identifier.
C2_OneBeginPerIdentifier ==
    KeepsI1 =>
        \A h \in Handles :
            LET B == {i \in Calls : IsBegin(log[i]) /\ log[i].id = handles[h].id} IN
            /\ Cardinality(B) = 1
            /\ \A b \in B :
                  /\ log[b].ans.tag = "Ok"
                  /\ \A j \in Calls :
                        (log[j].id = handles[h].id /\ ~IsBegin(log[j])) => b < j

\* C2 as amended: the construction of every handle issued exactly one call,
\* a BEGIN tagged with the handle's identifier, which was answered
\* successfully before any call of that handle; every successful new or
\* new_sync made exactly one handle; and no execute, commit or rollback call
\* for an identifier is issued before a BEGIN for it has succeeded.
C2_OneBeginPerConstruction ==
    /\ \A h \in Handles :
          LET k == handles[h].born IN
          /\ k \in Invocations /\ ops[k].api = "new" /\ ops[k].id = handles[h].id
          /\ ops[k].ret = Ok("Transaction")
          /\ Cardinality(CallsBy(k)) = 1
          /\ \A b \in CallsBy(k) :
                /\ IsBegin(log[b]) /\ log[b].id = handles[h].id
                /\ log[b].ans.tag = "Ok"
                /\ \A j \in CallsOf(h) : b < j
    /\ \A k \in Invocations :
          (ops[k].api = "new" /\ ops[k].ret.tag = "Ok")
             => Cardinality({h \in Handles : handles[h].born = k}) = 1
    /\ \A j \in Calls :
          ~IsBegin(log[j]) =>
             \E b \in 1..(j - 1) :
                IsBegin(log[b]) /\ log[b].id = log[j].id /\ log[b].ans.tag = "Ok"

\* A handle constructed by a BEGIN that succeeded has executed a statement
\* and was committed; afterwards a second BEGIN for its identifier was issued.
C2_Witness ==
    \E h \in Handles :
        /\ KeepsI1
        /\ \E i \in CallsOf(h) : IsExecute(log[i])
        /\ \E i \in CallsOf(h) : IsCommit(log[i])
        /\ Cardinality({i \in Calls : IsBegin(log[i])
                                      /\ log[i].id = handles[h].id}) = 2

(* ------------------------------- C3 ---------------------------------- *)

\* C3 as stated, for callers that keep I1: when the connection reports
\* failure for BEGIN, construction returns an error, no handle exists for
\* that identifier and no execute, commit or rollback call is issued for
\* that identifier afterwards.
C3_FailedBeginBarsIdentifier ==
    KeepsI1 =>
        \A i \in Calls :
            (IsBegin(log[i]) /\ log[i].ans.tag = "Err") =>
                /\ ops[log[i].op].ret.tag = "Err"
                /\ \A h \in HandlesFor(log[i].id) : handles[h].st # "open"
                /\ \A j \in Calls :
                      (j > i /\ log[j].id = log[i].id) => IsBegin(log[j])

\* C3 as amended: when the connection reports failure for BEGIN, construction
\* returns that error, makes no handle and issues no further call; and an
\* identifier for which no BEGIN has succeeded has no handle and no execute,
\* commit or rollback call.
C3_NoHandleWithoutBegin ==
    /\ \A i \in Calls :
          (IsBegin(log[i]) /\ log[i].ans.tag = "Err") =>
              /\ ops[log[i].op].ret = log[i].ans
              /\ \A h \in Handles : handles[h].born # log[i].op
              /\ CallsBy(log[i].op) = {i}
    /\ \A id \in Ids :
          (\A b \in Calls :
              (IsBegin(log[b]) /\ log[b].id = id) => log[b].ans.tag # "Ok")
          => /\ HandlesFor(id) = {}
             /\ \A j \in Calls : log[j].id = id => IsBegin(log[j])

\* BEGIN failed for an identifier while a handle on the other identifier
\* went on to execute.
C3_Witness ==
    \E i \in Calls :
        /\ IsBegin(log[i]) /\ log[i].ans.tag = "Err"
        /\ ops[log[i].op].ret.tag = "Err"
        /\ HandlesFor(log[i].id) = {}
        /\ \E j \in Calls : j > i /\ IsExecute(log[j]) /\ log[j].id # log[i].id

(* ------------------------------- C4 ---------------------------------- *)

\* C4: once commit or rollback has been called on a handle, whatever the
\* connection answers, that handle issues no further execute, commit or
\* rollback call: no invocation on the handle and no call of the handle
\* follows its terminal one, and the handle is not Open any more.
C4_NothingAfterTerminal ==
    \A h \in Handles :
        /\ \A k \in Invocations :
              (ops[k].h = h /\ ops[k].api \in {"commit", "rollback"}) =>
                  /\ handles[h].st # "open"
                  /\ \A j \in Invocations : j > k => ops[j].h # h
        /\ \A i \in TerminalCallsOf(h) :
              \A j \in CallsOf(h) : j <= i

\* A terminal call answered with an error, followed by a call of another
\* handle while the consumed handle stays silent.
C4_Witness ==
    \E h \in Handles :
        \E i \in TerminalCallsOf(h) :
            /\ log[i].ans.tag = "Err"
            /\ \E j \in Calls : j > i /\ ops[log[j].op].h \notin {0, h}

(* ------------------------------- C5 ---------------------------------- *)

ExecutesOn(h) == {k \in Invocations : ops[k].h = h /\ ops[k].api = "execute"}
TerminalsOn(h) == {k \in Invocations : ops[k].h = h /\ ops[k].api \in {"commit", "rollback"}}
Failed(k) == ops[k].ret.tag = "Err"

\* C5: a failed execute does not change the transaction's state: a handle
\* with a failed execute and no commit or rollback invoked on it is still
\* Open, so that execute may be invoked on it again, and every execute of
\* the handle, before and after the failure, is forwarded with the
\* identifier the handle was constructed with.
C5_FailedExecuteKeepsOpen ==
    \A h \in Handles :
        (\E k \in ExecutesOn(h) : Failed(k)) =>
            /\ TerminalsOn(h) = {} => (handles[h].st = "open" /\ CanBorrow(M, h))
            /\ handles[h].id = ops[handles[h].born].id
            /\ \A k \in ExecutesOn(h) :
                  \A i \in CallsBy(k) :
                     IsExecute(log[i]) /\ log[i].id = ops[handles[h].born].id

\* An execute failed and returned; afterwards execute was invoked again on
\* the same handle and succeeded under the same identifier.
C5_Witness ==
    \E h \in Handles :
        \E k1, k2 \in ExecutesOn(h) :
            /\ k1 < k2
            /\ Failed(k1)
            /\ ops[k2].alone
            /\ ops[k2].ret.tag = "Ok"
            /\ \E i \in CallsBy(k2) : log[i].id = handles[h].id

(* ------------------------------- C6 ---------------------------------- *)

\* The invocations that belong to handle h: its construction and the
\* functions invoked on it; and the calls they made.
OpsOn(h) == {handles[h].born} \cup {k \in Invocations : ops[k].h = h}
CallsIn(h) == {i \in Calls : log[i].op \in OpsOn(h)}

\* What the connection is asked by invocation k of handle h.
Asks(k, h, e) ==
    CASE ops[k].api = "new"      -> IsBegin(e)
      [] ops[k].api = "execute"  -> IsExecute(e) /\ e.stmt = Into(ops[k].stmt)
      [] ops[k].api = "commit"   -> IsCommit(e)
      [] ops[k].api = "rollback" -> IsRollback(e)

\* C6: a failed execute triggers no implicit terminal call.  For a handle
\* with a failed execute: the error is returned to the caller; every
\* invocation made exactly one call, the one it was invoked for, so that no
\* COMMIT or ROLLBACK is issued unless the caller invoked it; the calls are
\* in the order of the invocations; and once the caller has invoked commit,
\* the recorded sequence is BEGIN, the executes, COMMIT.
C6_NoImplicitTerminal ==
    \A h \in Handles :
        (\E k \in ExecutesOn(h) : Failed(k)) =>
            /\ \A k \in OpsOn(h) :
                  /\ Cardinality(CallsBy(k)) = 1
                  /\ \A i \in CallsBy(k) :
                        /\ Asks(k, h, log[i])
                        /\ log[i].id = handles[h].id
                        /\ (ops[k].api = "execute" /\ log[i].ans.tag = "Err")
                              => ops[k].ret = log[i].ans
            /\ \A i, j \in CallsIn(h) : (i < j) <=> (log[i].op < log[j].op)
            /\ \A k \in TerminalsOn(h) :
                  ops[k].api = "commit" =>
                     \A i \in CallsIn(h) :
                        \/ IsBegin(log[i]) /\ \A j \in CallsIn(h) : i <= j
                        \/ IsExecute(log[i])
                        \/ IsCommit(log[i]) /\ \A j \in CallsIn(h) : j <= i

\* The documented scenario: BEGIN, an execute that succeeds, an execute that
\* fails, then the caller's commit, forwarded as COMMIT and answered.
C6_Witness ==
    \E h \in Handles :
        \E i1, i2, i3, i4 \in CallsIn(h) :
            /\ i1 < i2 /\ i2 < i3 /\ i3 < i4
            /\ IsBegin(log[i1])
            /\ IsExecute(log[i2]) /\ log[i2].ans.tag = "Ok"
            /\ IsExecute(log[i3]) /\ log[i3].ans.tag = "Err"
            /\ Failed(log[i3].op)
            /\ IsCommit(log[i4]) /\ log[i4].ans.tag = "Ok"

(* ------------------------------- C7 ---------------------------------- *)

\* C7: when the connection reports failure for COMMIT, commit returns that
\* error to the caller, the handle is consumed, and the handle issues
\* nothing further: the commit made that one call only (no retry) and no
\* call of the handle follows it (no automatic ROLLBACK).
C7_FailedCommitIsFinal ==
    \A i \in Calls :
        (IsCommit(log[i]) /\ log[i].ans.tag = "Err") =>
            LET k == log[i].op
                h == ops[log[i].op].h
            IN  /\ ops[k].api = "commit"
                /\ ops[k].ret = log[i].ans
                /\ handles[h].st = "consumed"
                /\ CallsBy(k) = {i}
                /\ \A j \in CallsOf(h) : j <= i
                /\ \A j \in Invocations : j > k => ops[j].h # h

\* A COMMIT was answered with an error and the caller went on to begin
\* another transaction.
C7_Witness ==
    \E i \in Calls :
        /\ IsCommit(log[i]) /\ log[i].ans.tag = "Err"
        /\ Failed(log[i].op)
        /\ \E j \in Calls : j > i /\ IsBegin(log[j]) /\ log[j].ans # Pending

(* ------------------------------- C8 ---------------------------------- *)

\* C8: rollback errors are never downgraded to success: a rollback that has
\* returned made one rollback call for the handle's identifier, returned
\* success if and only if the connection answered success, and returned the
\* connection's error otherwise.
C8_RollbackErrorSurfaces ==
    \A k \in Invocations :
        (ops[k].api = "rollback" /\ ops[k].ret # Pending) =>
            /\ Cardinality(CallsBy(k)) = 1
            /\ \A i \in CallsBy(k) :
                  /\ IsRollback(log[i])
                  /\ log[i].id = handles[ops[k].h].id
                  /\ (ops[k].ret.tag = "Ok") <=> (log[i].ans.tag = "Ok")
                  /\ log[i].ans.tag = "Err" => ops[k].ret = log[i].ans

\* One rollback failed and returned the error, another succeeded.
C8_Witness ==
    /\ \E k \in Invocations : ops[k].api = "rollback" /\ Failed(k)
    /\ \E k \in Invocations : ops[k].api = "rollback" /\ ops[k].ret.tag = "Ok"

(* ------------------------------- C9 ---------------------------------- *)

\* The blocking function of the connection that stands for fn.
BlockingName(fn) ==
    CASE fn = "execute_in_transaction" -> "execute_in_transaction_sync"
      [] fn = "commit_transaction"     -> "commit_transaction_sync"
      [] fn = "rollback_transaction"   -> "rollback_transaction_sync"
      [] OTHER                         -> "none"

\* C9: for the same scenario (same identifiers, same invocations in the same
\* order, same answers of the connection) the blocking and the suspending
\* functions make the same sequence of calls to the connection, call for
\* call the same but for the blocking or suspending form of the function
\* called, return the same outcome for every invocation and leave the same
\* handles.
C9_SameCallsAndOutcomes ==
    /\ Len(twin.log) = Len(log)
    /\ \A i \in Calls :
          twin.log[i] = [log[i] EXCEPT !.fn = BlockingName(@)]
    /\ Len(twin.ops) = Len(ops)
    /\ \A k \in Invocations :
          /\ ~ops[k].sync
          /\ twin.ops[k] = [ops[k] EXCEPT !.sync = TRUE]
    /\ twin.handles = handles

\* A scenario with a BEGIN that fails, an execute that fails and a rollback
\* that succeeds, run under both contracts.
C9_Witness ==
    /\ contract = "lockstep"
    /\ \E i \in Calls : IsBegin(log[i]) /\ log[i].ans.tag = "Err"
    /\ \E i \in Calls : IsExecute(log[i]) /\ log[i].ans.tag = "Err"
    /\ \E i \in 1..Len(twin.log) :
          /\ twin.log[i].fn = "rollback_transaction_sync"
          /\ twin.ops[twin.log[i].op].ret = Ok("unit")

(* ------------------------------- C10 --------------------------------- *)

\* The pairs of handles on distinct identifiers.
DistinctPairs ==
    {p \in Handles \X Handles : handles[p[1]].id # handles[p[2]].id}

\* Every call of a handle carries the identifier it was constructed with,
\* which is not the identifier of a handle on another identifier.
RoutedById ==
    \A p \in DistinctPairs :
        \A i \in CallsOf(p[1]) :
            /\ log[i].id = handles[p[1]].id
            /\ log[i].id = ops[handles[p[1]].born].id
            /\ log[i].id # handles[p[2]].id

\* This step is part of an operation on handle h: a function is invoked on
\* h, or a function invoked on h returns.
StepOn(h) ==
    \/ Len(ops') = Len(ops) + 1 /\ ops'[Len(ops')].h = h
    \/ \E k \in Invocations : ops[k].h = h /\ ops'[k].ret # ops[k].ret

\* C10: with handles on distinct identifiers on the same connection and
\* their operations interleaved in any order, every call a handle forwards
\* carries that handle's own identifier, fixed at construction, and a step
\* of an operation on one handle (an invocation, a success, a failure, a
\* terminal call) leaves the other handle as it was.
C10_NoCrossTalk ==
    [][ /\ RoutedById'
        /\ \A p \in DistinctPairs :
              StepOn(p[1]) => handles'[p[2]] = handles[p[2]]
      ]_vars

\* Two handles on distinct identifiers with interleaved executes: the
\* execute of the first failed and the second, invoked later, is still Open.
C10_Witness ==
    \E p \in DistinctPairs :
        \E k1 \in ExecutesOn(p[1]), k2 \in ExecutesOn(p[2]) :
            /\ k1 < k2
            /\ Failed(k1)
            /\ ops[k2].ret.tag = "Ok"
            /\ handles[p[1]].st = "open" /\ handles[p[2]].st = "open"

(* ------------------------------- C11 --------------------------------- *)

\* The live handles on identifier id: the handle values that exist.
LiveHandlesFor(id) == {h \in HandlesFor(id) : handles[h].st = "open"}

\* C11 as stated: a transaction identifier is never reused while its handle
\* is live: there is at most one live handle per identifier, so that new or
\* new_sync for an identifier that has a live handle yields no second one.
C11_OneLiveHandlePerIdentifier ==
    \A id \in Ids : Cardinality(LiveHandlesFor(id)) <= 1

(* ------------------------------- C12 --------------------------------- *)

\* C12 as stated: when a suspended begin, execute, commit or rollback call
\* is cancelled, the caller receives a cancellation error, which is neither
\* success nor one of the connection's errors, and the cancelled invocation
\* has issued its one call only.
C12_CancellationIsDistinctError ==
    \A i \in Calls :
        log[i].ans = Dropped =>
            /\ ops[log[i].op].ret.tag = "Err"
            /\ ops[log[i].op].ret.v \notin Errors
            /\ CallsBy(log[i].op) = {i}

(* ------------------------------- C13 --------------------------------- *)

\* C13: no operation of a handle races a terminal call.  When commit or
\* rollback is invoked on a handle, and its call issued, no execute of the
\* handle is in flight (every earlier one has returned); while the terminal
\* call is in flight it is the only operation of the handle; and no execute
\* of the handle is invoked or issued afterwards.
C13_NoRaceWithTerminal ==
    \A h \in Handles :
        \A k \in TerminalsOn(h) :
            /\ ops[k].alone
            /\ ops[k].ret = Pending => Borrows(M, h) = {k}
            /\ \A j \in ExecutesOn(h) : j < k
            /\ \A i \in CallsBy(k) :
                  \A j \in CallsOf(h) : IsExecute(log[j]) => j < i

\* Two executes of one handle were in flight at the same time; after both
\* had returned, commit or rollback was invoked on the handle.
C13_Witness ==
    \E h \in Handles :
        \E k1, k2 \in ExecutesOn(h) :
            /\ k1 < k2
            /\ ~ops[k2].alone
            /\ TerminalsOn(h) # {}

(* ------------------------------- C14 --------------------------------- *)

\* The function of the connection that function api of the handle calls,
\* in its blocking (sync) or suspending form.
Forwards(api, sync) ==
    LET fn == CASE api = "new"      -> "execute_in_transaction"
                [] api = "execute"  -> "execute_in_transaction"
                [] api = "commit"   -> "commit_transaction"
                [] api = "rollback" -> "rollback_transaction"
    IN  IF sync THEN BlockingName(fn) ELSE fn

\* C14: no local recovery and no retries.  Every invocation of new,
\* execute, commit or rollback, blocking or suspending, issues exactly one
\* call to the connection, the one the function stands for; it returns when
\* that call is answered, returns an error exactly when the call was
\* answered with an error, and then returns that very error.
C14_OneCallNoRecovery ==
    \A k \in Invocations :
        /\ Cardinality(CallsBy(k)) = 1
        /\ \A i \in CallsBy(k) :
              /\ log[i].fn = Forwards(ops[k].api, ops[k].sync)
              /\ (ops[k].api = "new") <=> IsBegin(log[i])
              /\ (ops[k].ret = Pending) <=> (log[i].ans = Pending)
              /\ (ops[k].ret.tag = "Err") <=> (log[i].ans.tag = "Err")
              /\ log[i].ans.tag = "Err" => ops[k].ret = log[i].ans

\* A construction, an execute and a commit or rollback have each failed and
\* returned the connection's error, and a construction has succeeded.
C14_Witness ==
    /\ \E k \in Invocations : ops[k].api = "new" /\ Failed(k)
    /\ \E k \in Invocations : ops[k].api = "new" /\ ops[k].ret.tag = "Ok"
    /\ \E k \in Invocations : ops[k].api = "execute" /\ Failed(k)
    /\ \E k \in Invocations : ops[k].api \in {"commit", "rollback"} /\ Failed(k)

(* ------------------------------- C15 --------------------------------- *)

\* The connection has been destroyed.
ClientGone == contract = "gone"

\* Nothing refers to the connection: no handle value exists, no function
\* that holds the connection or a handle is running, no call awaits an answer.
NoClientReference ==
    /\ \A h \in Handles : handles[h].st # "open"
    /\ Running(M) = {}
    /\ InFlight(M) = {}

\* C15: the handle's reference to the connection does not outlive the
\* connection.  At the step that destroys the connection, and ever after, no
\* live handle is left and no operation is running; and once the
\* connection is destroyed no invocation is made and no call is forwarded.
C15_HandleWithinConnection ==
    [][ /\ ClientGone' => NoClientReference'
        /\ ClientGone => (ops' = ops /\ log' = log /\ handles' = handles)
      ]_vars

\* The connection was destroyed after one handle on it had been consumed
\* by commit or rollback and another had been dropped.
C15_Witness ==
    /\ ClientGone
    /\ \E h \in Handles : handles[h].st = "consumed" /\ TerminalCallsOf(h) # {}
    /\ \E h \in Handles : handles[h].st = "dropped"

(* ------------------------------- C17 --------------------------------- *)

\* Handle h goes away in this step without commit or rollback.
Dropping(h) == handles[h].st = "open" /\ handles'[h].st = "dropped"

\* C17 as stated, for callers that keep I1: a handle that is discarded
\* without commit or rollback issues no call when it goes away, and its
\* identifier then has a successful BEGIN and no terminal call.
C17_NoTerminalForIdentifier ==
    [][ \A h \in Handles :
          (Dropping(h) /\ KeepsI1) =>
              /\ log' = log
              /\ \E b \in Calls : /\ IsBegin(log[b])
                                  /\ log[b].id = handles[h].id
                                  /\ log[b].ans.tag = "Ok"
              /\ TerminalCallsFor(handles[h].id) = {}
      ]_vars

\* A handle that went away has issued its BEGIN and executes only.
DroppedIsQuiet ==
    \A h \in Handles :
        handles[h].st = "dropped" =>
            /\ TerminalsOn(h) = {}
            /\ \A i \in CallsIn(h) : IsBegin(log[i]) \/ IsExecute(log[i])
            /\ \A i \in CallsIn(h) : IsBegin(log[i]) <=> log[i].op = handles[h].born

\* C17 as amended: a handle that is discarded without commit or rollback
\* issues no call when it goes away, and none later; the BEGIN of its
\* construction has succeeded and the handle has issued no terminal call.
C17_DropIssuesNoCall ==
    [][ /\ \A h \in Handles :
              Dropping(h) =>
                  /\ log' = log /\ ops' = ops
                  /\ \A b \in CallsBy(handles[h].born) :
                        IsBegin(log[b]) /\ log[b].ans.tag = "Ok"
                  /\ TerminalCallsOf(h) = {}
        /\ DroppedIsQuiet'
      ]_vars

\* A handle went away after an execute, and afterwards a BEGIN for its
\* identifier was issued, with no terminal call in between or at all.
C17_Witness ==
    \E h \in Handles :
        /\ handles[h].st = "dropped"
        /\ KeepsI1
        /\ \E i \in CallsOf(h) : IsExecute(log[i]) /\ log[i].ans # Pending
        /\ \E b \in Calls : /\ IsBegin(log[b])
                            /\ log[b].id = handles[h].id
                            /\ log[b].op > handles[h].born
        /\ \A i \in Calls : ~IsTerminal(log[i])

(* ------------------------------- C16 --------------------------------- *)

\* The executes that have returned a result set.
Succeeded == {k \in Invocations : ops[k].api = "execute" /\ ops[k].ret.tag = "Ok"}

\* C16: every execute, blocking or suspending, forwards to the connection
\* the statement it was given (converted by into(), arguments included)
\* tagged with its handle's identifier, in one call; and an execute that
\* succeeds returns exactly the result set the connection answered that
\* call with, whatever other calls were answered meanwhile.
C16_ForwardedUnmodified ==
    \A k \in Invocations :
        ops[k].api = "execute" =>
            /\ Cardinality(CallsBy(k)) = 1
            /\ \A i \in CallsBy(k) :
                  /\ log[i].stmt = Into(ops[k].stmt)
                  /\ log[i].stmt.sql = ops[k].stmt.sql
                  /\ log[i].stmt.args = ops[k].stmt.args
                  /\ log[i].id = handles[ops[k].h].id
                  /\ (k \in Succeeded) <=> (log[i].ans.tag = "Ok")
                  /\ (k \in Succeeded) => ops[k].ret = log[i].ans

\* Two executes of one handle with different statements, a blocking and a
\* suspending one in flight at the same time, returned different result sets.
C16_Witness ==
    \E k1, k2 \in Succeeded :
        /\ ops[k1].h = ops[k2].h
        /\ k1 < k2 /\ ~ops[k2].alone
        /\ ops[k1].sync # ops[k2].sync
        /\ ops[k1].stmt # ops[k2].stmt
        /\ ops[k1].ret # ops[k2].ret

(* ------------------------------- C18 --------------------------------- *)

\* C18: the lifecycle guarantees do not depend on the variant used per
\* call.  With blocking and suspending functions mixed in any combination:
\* the construction of every handle issued one BEGIN, answered successfully
\* before any other call of the handle, and every execute, commit or
\* rollback call for an identifier comes after a successful BEGIN for it;
\* every handle issues at most one terminal call; and no invocation and no
\* call of the handle follows its terminal one.
C18_LifecycleWhateverVariant ==
    /\ \A h \in Handles :
          /\ Cardinality(CallsBy(handles[h].born)) = 1
          /\ \A b \in CallsBy(handles[h].born) :
                /\ IsBegin(log[b]) /\ log[b].id = handles[h].id
                /\ log[b].ans.tag = "Ok"
                /\ \A j \in CallsOf(h) : b < j /\ ~IsBegin(log[j])
          /\ Cardinality(TerminalCallsOf(h)) <= 1
          /\ Cardinality(TerminalsOn(h)) <= 1
          /\ \A i \in TerminalCallsOf(h) : \A j \in CallsOf(h) : j <= i
          /\ \A k \in TerminalsOn(h) :
                /\ handles[h].st # "open"
                /\ \A j \in Invocations : j > k => ops[j].h # h
    /\ \A j \in Calls :
          /\ log[j].fn = Forwards(ops[log[j].op].api, ops[log[j].op].sync)
          /\ ~IsBegin(log[j]) =>
                \E b \in 1..(j - 1) :
                   IsBegin(log[b]) /\ log[b].id = log[j].id /\ log[b].ans.tag = "Ok"

\* A handle constructed by one variant has executed by the other and was
\* ended by a commit or rollback of the variant that is not the execute's.
C18_Witness ==
    \E h \in Handles :
        \E k \in ExecutesOn(h), t \in TerminalsOn(h) :
            /\ ops[handles[h].born].sync # ops[k].sync
            /\ ops[k].sync # ops[t].sync
            /\ ops[k].ret # Pending
            /\ ops[t].ret # Pending

====
